---- MODULE Spec2Model ----
(***************************************************************************)
(* The dictionary codecs of rust_bridge_pm_py:                             *)
(*   petri_net.py  - petrinet_to_dict / dict_to_petrinet                   *)
(*   event_log.py  - Event / Trace / EventLog to_dict and from_dict,       *)
(*                   EventLog.from_count and py_test_event_log             *)
(*                                                                         *)
(* Python values are modelled as follows.                                  *)
(*   None               None,  any other optional value v is Some(v)       *)
(*   dict               a function whose DOMAIN is the set of present keys *)
(*   list               a sequence                                         *)
(*   id(obj)            a natural number, distinct for distinct objects    *)
(*   str(uuid.uuid4())  a member of UuidSpace, drawn nondeterministically  *)
(*   a call             a record [exc, line, ...]: exc = NoExc when the    *)
(*                      call returns, else the exception raised and the    *)
(*                      source line that raises it                         *)
(***************************************************************************)
EXTENDS Integers, Sequences, FiniteSets, TLC

VARIABLES
    pc,                \* position of the running scenario
    net, im, fms,      \* arguments of petrinet_to_dict
    todo_places,       \* places the loop of line 55 has not visited yet
    todo_transitions,  \* transitions the loop of line 60 has not visited yet
    pyid_to_uuid,      \* petrinet_to_dict: id(node) -> generated identifier
    places,            \* petrinet_to_dict: the `places` dict under construction
    transitions,       \* petrinet_to_dict: the `transitions` dict under construction
    encoded,           \* outcome of petrinet_to_dict
    net_dict,          \* argument of dict_to_petrinet
    result,            \* outcome of dict_to_petrinet
    log,               \* an EventLog object
    log_dict,          \* argument of EventLog.from_dict
    new_log,           \* outcome of EventLog.from_dict
    test_run           \* outcome of py_test_event_log

vars == <<pc, net, im, fms, todo_places, todo_transitions, pyid_to_uuid, places,
          transitions, encoded, net_dict, result, log, log_dict, new_log, test_run>>

netVars == <<net, im, fms, todo_places, todo_transitions, pyid_to_uuid, places,
             transitions, encoded, net_dict, result>>

logVars == <<log, log_dict, new_log, test_run>>

----------------------------------------------------------------------------
(* Bounds of the model *)

NumUuids == 3      \* size of the identifier space uuid4 draws from
MaxArcs == 2       \* arcs of a net / entries of an `arcs` list
MaxFinal == 2      \* entries of a final-markings list
MaxLen == 2        \* traces of a log, events of a trace
MaxCount == 3      \* num_traces and num_acts handed to from_count

----------------------------------------------------------------------------
(* Python values *)

None == [some |-> FALSE]
Some(v) == [some |-> TRUE, val |-> v]

NoExc == "none"
Idle == "idle"
EmptyDict == <<>>

SeqsUpTo(S, n) == UNION {[1..k -> S] : k \in 0..n}

Max(S) == CHOOSE x \in S : \A y \in S : y <= x
Min(S) == CHOOSE x \in S : \A y \in S : x <= y

\* d[k] = v, as a dict assignment: inserts k or overwrites its value
DictSet(d, k, v) == [x \in DOMAIN d \cup {k} |-> IF x = k THEN v ELSE d[x]]

\* d.get(k): None when k is absent
DictGet(d, k) == IF k \in DOMAIN d THEN Some(d[k]) ELSE None

----------------------------------------------------------------------------
(* petri_net.py : the objects of pm4py the codec reads and builds *)

PlaceObjs == {1, 2}         \* id(p) of the PetriNet.Place objects that exist
TransObjs == {3, 4}         \* id(t) of the PetriNet.Transition objects that exist
Labels == {None, Some("a")} \* t.label
Weights == {1, 2}           \* arc.weight
Tokens == {1, 2}            \* token counts of a marking
UuidSpace == 1..NumUuids    \* the values str(uuid.uuid4()) can take

Place(name) == [name |-> name]
Transition(name, label) == [name |-> name, label |-> label]
Arc(source, target, weight) == [source |-> source, target |-> target, weight |-> weight]

\* type(arc.source) == PetriNet.Place
IsPlaceObj(x) == x \in PlaceObjs

----------------------------------------------------------------------------
(* petri_net.py : dict_to_petrinet, lines 6-44 *)

\* the outcome of a call that raised `exc` at source line `line`
Raise(exc, line, warned) ==
    [exc |-> exc, line |-> line, warned |-> warned, ret |-> None]

\* the outcome of a call that returned v from source line `line`
Return(line, warned, v) ==
    [exc |-> NoExc, line |-> line, warned |-> warned, ret |-> Some(v)]

\* faulty variant of Subscript: an absent key reads as an empty value (d.get(k, {}))
SubscriptOrDefault(d, k) ==
    IF k \in DOMAIN d THEN [exc |-> NoExc, val |-> d[k]]
    ELSE [exc |-> NoExc,
          val |-> IF k \in {"initial_marking", "final_markings"} THEN None ELSE EmptyDict]

\* net_dict[k] (lines 9, 12, 25, 29, 34): KeyError when the key is absent
Subscript(d, k) ==
    IF k \in DOMAIN d THEN [exc |-> NoExc, val |-> d[k]]
    ELSE [exc |-> "KeyError", val |-> None]

\* line 9: {p["id"]: PetriNet.Place(p["id"]) for p in net_dict["places"].values()}
DecodePlaces(ps) ==
    [i \in {ps[k].id : k \in DOMAIN ps} |-> Place(i)]

\* lines 10-13: {t["id"]: PetriNet.Transition(t["id"], t["label"]) for t in ...values()}
\* (on a repeated id the entry visited last stays; entries are visited in key order)
DecodeTransitions(ts) ==
    [i \in {ts[k].id : k \in DOMAIN ts} |->
        Transition(i, ts[Max({k \in DOMAIN ts : ts[k].id = i})].label)]

\* pm4py add_arc_from_to(fr, to, net, weight), called on line 23.  Arc() raises
\* Exception when both endpoints have the same type (here: both None); otherwise
\* fr.out_arcs / to.in_arcs raises AttributeError on a None endpoint.
add_arc_from_to(fr, to, weight) ==
    IF ~fr.some /\ ~to.some THEN [exc |-> "Exception", arc |-> None]
    ELSE IF ~fr.some \/ ~to.some THEN [exc |-> "AttributeError", arc |-> None]
    ELSE [exc |-> NoExc, arc |-> Some(Arc(fr.val, to.val, weight))]

\* faulty variant of get_arc_for: the direction tag is ignored, every arc is looked
\* up as a PlaceTransition arc
get_arc_for_untagged(dplaces, dtransitions, arc_dict) ==
    add_arc_from_to(DictGet(dplaces, arc_dict.from_to.nodes[1]),
                    DictGet(dtransitions, arc_dict.from_to.nodes[2]),
                    arc_dict.weight)

\* lines 16-23 (Python's nodes[0], nodes[1] are nodes[1], nodes[2] here)
get_arc_for(dplaces, dtransitions, arc_dict) ==
    IF arc_dict.from_to.type = "PlaceTransition"
    THEN add_arc_from_to(DictGet(dplaces, arc_dict.from_to.nodes[1]),
                         DictGet(dtransitions, arc_dict.from_to.nodes[2]),
                         arc_dict.weight)
    ELSE add_arc_from_to(DictGet(dtransitions, arc_dict.from_to.nodes[1]),
                         DictGet(dplaces, arc_dict.from_to.nodes[2]),
                         arc_dict.weight)

\* lines 30-32 and 40-42: marking[places[place_id]] = m[place_id] for place_id in m
\* (places[place_id] raises KeyError for an id that is no key of places)
DecodeMarking(dplaces, m) ==
    IF \E i \in DOMAIN m : i \notin DOMAIN dplaces
    THEN [exc |-> "KeyError", val |-> None]
    ELSE [exc |-> NoExc,
          val |-> [pl \in {dplaces[i] : i \in DOMAIN m} |->
                      m[CHOOSE i \in DOMAIN m : dplaces[i] = pl]]]

\* faulty variant of DecodeFinalMarking: the last entry is taken instead of the first
DecodeFinalMarkingLast(dplaces, fmo) ==
    IF ~fmo.some THEN [exc |-> NoExc, line |-> 34, warned |-> FALSE, fm |-> None]
    ELSE LET f == fmo.val
             warned == Len(f) > 0 /\ Len(f) > 1
         IN IF Len(f) = 0
            THEN [exc |-> "IndexError", line |-> 41, warned |-> warned, fm |-> None]
            ELSE LET m == DecodeMarking(dplaces, f[Len(f)])
                 IN IF m.exc # NoExc
                    THEN [exc |-> m.exc, line |-> 42, warned |-> warned, fm |-> None]
                    ELSE [exc |-> NoExc, line |-> 42, warned |-> warned,
                          fm |-> Some(m.val)]

\* lines 33-42.  Lines 40-42 are not nested under `if len(...) > 0`: they run
\* whenever final_markings is not None, and final_markings[0] raises IndexError
\* on an empty list.
DecodeFinalMarking(dplaces, fmo) ==
    IF ~fmo.some THEN [exc |-> NoExc, line |-> 34, warned |-> FALSE, fm |-> None]
    ELSE LET f == fmo.val
             warned == Len(f) > 0 /\ Len(f) > 1
         IN IF Len(f) = 0
            THEN [exc |-> "IndexError", line |-> 41, warned |-> warned, fm |-> None]
            ELSE LET m == DecodeMarking(dplaces, f[1])
                 IN IF m.exc # NoExc
                    THEN [exc |-> m.exc, line |-> 42, warned |-> warned, fm |-> None]
                    ELSE [exc |-> NoExc, line |-> 42, warned |-> warned,
                          fm |-> Some(m.val)]

\* PetriNet(None, places.values(), transitions.values()) with the arcs that
\* add_arc_from_to added to net.arcs, in the order they were added
PetriNet(dplaces, dtransitions, darcs) ==
    [places |-> {dplaces[i] : i \in DOMAIN dplaces},
     transitions |-> {dtransitions[i] : i \in DOMAIN dtransitions},
     arcs |-> darcs]

\* lines 27-44, once the net is built
dict_to_petrinet_markings(d, dplaces, dnet) ==
    LET ims == Subscript(d, "initial_marking")
    IN IF ims.exc # NoExc THEN Raise(ims.exc, 29, FALSE)
       ELSE LET dim == IF ims.val.some THEN DecodeMarking(dplaces, ims.val.val)
                       ELSE [exc |-> NoExc, val |-> None]
            IN IF dim.exc # NoExc THEN Raise(dim.exc, 32, FALSE)
               ELSE LET fs == Subscript(d, "final_markings")
                    IN IF fs.exc # NoExc THEN Raise(fs.exc, 34, FALSE)
                       ELSE LET dfm == DecodeFinalMarking(dplaces, fs.val)
                            IN IF dfm.exc # NoExc
                               THEN Raise(dfm.exc, dfm.line, dfm.warned)
                               ELSE Return(44, dfm.warned,
                                      [net |-> dnet,
                                       im |-> IF ims.val.some THEN Some(dim.val)
                                              ELSE None,
                                       fm |-> dfm.fm])

\* lines 6-44
dict_to_petrinet(d) ==
    LET ps == Subscript(d, "places")
    IN IF ps.exc # NoExc THEN Raise(ps.exc, 9, FALSE)
       ELSE LET ts == Subscript(d, "transitions")
            IN IF ts.exc # NoExc THEN Raise(ts.exc, 12, FALSE)
               ELSE LET dplaces == DecodePlaces(ps.val)
                        dtransitions == DecodeTransitions(ts.val)
                        as == Subscript(d, "arcs")
                    IN IF as.exc # NoExc THEN Raise(as.exc, 25, FALSE)
                       ELSE LET got == [i \in 1..Len(as.val) |->
                                           get_arc_for(dplaces, dtransitions, as.val[i])]
                                bad == {i \in 1..Len(as.val) : got[i].exc # NoExc}
                            IN IF bad # {} THEN Raise(got[Min(bad)].exc, 23, FALSE)
                               ELSE dict_to_petrinet_markings(d, dplaces,
                                       PetriNet(dplaces, dtransitions,
                                                [i \in 1..Len(as.val) |-> got[i].arc.val]))

----------------------------------------------------------------------------
(* petri_net.py : petrinet_to_dict, lines 47-97 *)

\* the nodes whose id() is a key of pyid_to_uuid map to their identifier
HasUuid(x) == x \in DOMAIN pyid_to_uuid

\* lines 64-75: the `arcs` list, one entry per arc of net.arcs
EncodeArc(arc) ==
    [from_to |-> [type |-> IF IsPlaceObj(arc.source) THEN "PlaceTransition"
                           ELSE "TransitionPlace",
                  nodes |-> <<pyid_to_uuid[arc.source], pyid_to_uuid[arc.target]>>],
     weight |-> arc.weight]

\* lines 78-80 and 86-88: marking_dict[pyid_to_uuid[id(p)]] = n for p, n in m.items()
\* (items are visited in the order of id(p); a later assignment to the same key
\* overwrites the earlier one)
EncodeMarking(m) ==
    [u \in {pyid_to_uuid[p] : p \in DOMAIN m} |->
        m[Max({p \in DOMAIN m : pyid_to_uuid[p] = u})]]

\* lines 64-97, after both loops: pyid_to_uuid[...] raises KeyError for a node
\* that is neither in net.places nor in net.transitions
petrinet_to_dict_tail ==
    IF \E i \in 1..Len(net.arcs) :
          ~HasUuid(net.arcs[i].source) \/ ~HasUuid(net.arcs[i].target)
    THEN [exc |-> "KeyError", line |-> 70, ret |-> None]
    ELSE IF im.some /\ \E p \in DOMAIN im.val : ~HasUuid(p)
    THEN [exc |-> "KeyError", line |-> 80, ret |-> None]
    ELSE IF fms.some /\ \E i \in 1..Len(fms.val) : \E p \in DOMAIN fms.val[i] : ~HasUuid(p)
    THEN [exc |-> "KeyError", line |-> 88, ret |-> None]
    ELSE [exc |-> NoExc, line |-> 91,
          ret |-> Some(
            [places |-> places,
             transitions |-> transitions,
             arcs |-> [i \in 1..Len(net.arcs) |-> EncodeArc(net.arcs[i])],
             initial_marking |-> IF im.some THEN Some(EncodeMarking(im.val)) ELSE None,
             final_markings |->
                 IF fms.some
                 THEN Some([i \in 1..Len(fms.val) |-> EncodeMarking(fms.val[i])])
                 ELSE None])]

----------------------------------------------------------------------------
(* The nets, markings and dictionaries the scenarios start from *)

\* PetriNet.Arc objects: the constructor refuses two endpoints of the same type
ArcObjs ==
    {Arc(s, t, w) : s \in PlaceObjs, t \in TransObjs, w \in Weights}
    \cup {Arc(s, t, w) : s \in TransObjs, t \in PlaceObjs, w \in Weights}

\* Marking objects over the place objects
MarkingObjs == UNION {[S -> Tokens] : S \in SUBSET PlaceObjs}

\* identifiers that occur in dictionaries handed to dict_to_petrinet directly
WireIds == {1, 2}
WireLabel(i) == IF i = 1 THEN Some("a") ELSE None

WireArcs ==
    {[from_to |-> [type |-> ty, nodes |-> <<a, b>>], weight |-> w] :
        ty \in {"PlaceTransition", "TransitionPlace"},
        a \in WireIds, b \in WireIds, w \in Weights}

WireMarkings == UNION {[S -> Tokens] : S \in SUBSET WireIds}

WirePlaces(S) == [i \in S |-> [id |-> i]]
WireTransitions(S) == [i \in S |-> [id |-> i, label |-> WireLabel(i)]]

NetKeys == {"places", "transitions", "arcs", "initial_marking", "final_markings"}

\* dictionaries of the wire schema: those that vary the graph, and those that
\* vary the markings
GraphDicts ==
    {[places |-> WirePlaces(P), transitions |-> WireTransitions(T), arcs |-> A,
      initial_marking |-> None, final_markings |-> None] :
        P \in SUBSET WireIds, T \in SUBSET WireIds, A \in SeqsUpTo(WireArcs, MaxArcs)}

MarkingDicts ==
    {[places |-> WirePlaces(P), transitions |-> WireTransitions({2}),
      arcs |-> A, initial_marking |-> i, final_markings |-> f] :
        P \in SUBSET WireIds,
        A \in {<<>>, <<[from_to |-> [type |-> "PlaceTransition", nodes |-> <<1, 2>>],
                        weight |-> 1]>>},
        i \in {None} \cup {Some(m) : m \in WireMarkings},
        f \in {None} \cup {Some(s) : s \in SeqsUpTo(WireMarkings, MaxFinal)}}

\* the same dictionaries with any set of keys removed
PartialDicts ==
    {[k \in K |-> d[k]] :
        K \in SUBSET NetKeys,
        d \in {[places |-> WirePlaces({1}), transitions |-> WireTransitions({2}),
                arcs |-> A, initial_marking |-> None, final_markings |-> f] :
                  A \in SeqsUpTo({[from_to |-> [type |-> ty, nodes |-> <<1, 2>>],
                                   weight |-> 1] :
                                     ty \in {"PlaceTransition", "TransitionPlace"}}, 1),
                  f \in {None, Some(<<>>), Some(<<[i \in {1} |-> 1]>>)}}}

----------------------------------------------------------------------------
(* Scenario 1: petrinet_to_dict(net, im, fms), then dict_to_petrinet on its result *)

IdleLog ==
    /\ log = Idle /\ log_dict = Idle /\ new_log = Idle /\ test_run = Idle

InitNet ==
    /\ pc = "encode"
    /\ \E P \in SUBSET PlaceObjs, T \in SUBSET TransObjs :
         \E lab \in [T -> Labels] :
           /\ todo_places = P
           /\ todo_transitions = T
           \* the runs vary the arcs, the initial marking or the final markings
           /\ \/ /\ net \in {[places |-> P, transitions |-> lab, arcs |-> A] :
                               A \in SeqsUpTo(ArcObjs, MaxArcs)}
                 /\ im = None
                 /\ fms = None
              \/ /\ net = [places |-> P, transitions |-> lab, arcs |-> <<>>]
                 /\ im \in {Some(m) : m \in MarkingObjs}
                 /\ fms = None
              \/ /\ net = [places |-> P, transitions |-> lab, arcs |-> <<>>]
                 /\ im = None
                 /\ fms \in {Some(s) : s \in SeqsUpTo(MarkingObjs, MaxFinal)}
    /\ pyid_to_uuid = EmptyDict
    /\ places = EmptyDict
    /\ transitions = EmptyDict
    /\ encoded = Idle
    /\ net_dict = Idle
    /\ result = Idle
    /\ IdleLog

\* lines 55-58, one iteration of `for p in net.places`
EncodePlace ==
    /\ pc = "encode"
    /\ \E p \in todo_places, pid \in UuidSpace :
         /\ pyid_to_uuid' = DictSet(pyid_to_uuid, p, pid)
         /\ places' = DictSet(places, pid, [id |-> pid])
         /\ todo_places' = todo_places \ {p}
    /\ UNCHANGED <<pc, net, im, fms, todo_transitions, transitions, encoded,
                   net_dict, result, logVars>>

\* lines 60-63, one iteration of `for t in net.transitions`
EncodeTransition ==
    /\ pc = "encode"
    /\ todo_places = {}
    /\ \E t \in todo_transitions, tid \in UuidSpace :
         /\ pyid_to_uuid' = DictSet(pyid_to_uuid, t, tid)
         /\ transitions' = DictSet(transitions, tid,
                                   [id |-> tid, label |-> net.transitions[t]])
         /\ todo_transitions' = todo_transitions \ {t}
    /\ UNCHANGED <<pc, net, im, fms, todo_places, places, encoded, net_dict,
                   result, logVars>>

\* lines 64-97: the rest of petrinet_to_dict, up to its return or its exception
EncodeReturn ==
    /\ pc = "encode"
    /\ todo_places = {}
    /\ todo_transitions = {}
    /\ encoded' = petrinet_to_dict_tail
    /\ IF encoded'.exc = NoExc
       THEN net_dict' = encoded'.ret.val /\ pc' = "decode"
       ELSE net_dict' = net_dict /\ pc' = "done"
    /\ UNCHANGED <<net, im, fms, todo_places, todo_transitions, pyid_to_uuid,
                   places, transitions, result, logVars>>

\* dict_to_petrinet(net_dict), as one call
Decode ==
    /\ pc = "decode"
    /\ result' = dict_to_petrinet(net_dict)
    /\ pc' = "done"
    /\ UNCHANGED <<net, im, fms, todo_places, todo_transitions, pyid_to_uuid,
                   places, transitions, encoded, net_dict, logVars>>

Next == EncodePlace \/ EncodeTransition \/ EncodeReturn \/ Decode

Init == InitNet

Spec == Init /\ [][Next]_vars

----------------------------------------------------------------------------
(* Scenario 2: dict_to_petrinet on a dictionary that arrives from outside *)

InitDecode ==
    /\ pc = "decode"
    /\ net_dict \in GraphDicts \cup MarkingDicts \cup PartialDicts
    /\ net = Idle /\ im = Idle /\ fms = Idle
    /\ todo_places = {} /\ todo_transitions = {}
    /\ pyid_to_uuid = EmptyDict /\ places = EmptyDict /\ transitions = EmptyDict
    /\ encoded = Idle
    /\ result = Idle
    /\ IdleLog

SpecDecode == InitDecode /\ [][Decode]_vars

----------------------------------------------------------------------------
(* Properties of petrinet_to_dict and of the round trip (checked under Spec) *)

\* no two nodes of the call share a generated identifier
Injective ==
    \A x \in DOMAIN pyid_to_uuid : \A y \in DOMAIN pyid_to_uuid :
        x # y => pyid_to_uuid[x] # pyid_to_uuid[y]

\* both loops of petrinet_to_dict have ended
IdsAssigned == todo_places = {} /\ todo_transitions = {}

\* every arc of the net joins a place of the net and a transition of the net
NetNodes == net.places \cup DOMAIN net.transitions
ArcsInsideNet ==
    \A i \in 1..Len(net.arcs) :
        net.arcs[i].source \in NetNodes /\ net.arcs[i].target \in NetNodes

\* the direction tag of an arc object, of the original or of the decoded net
TagOfObj(arc) == IF IsPlaceObj(arc.source) THEN "PlaceTransition" ELSE "TransitionPlace"
TagOfDecoded(arc) ==
    IF "label" \in DOMAIN arc.source THEN "TransitionPlace" ELSE "PlaceTransition"

\* the decoded net D is isomorphic to the original net G in the sense of the
\* round-trip contract: place count, labels of the transitions, and the arcs as
\* a multiset of (direction tag, weight)
Isomorphic(G, D) ==
    /\ Cardinality(D.places) = Cardinality(G.places)
    /\ Cardinality(D.transitions) = Cardinality(DOMAIN G.transitions)
    /\ \A l \in Labels :
          Cardinality({t \in D.transitions : t.label = l})
            = Cardinality({t \in DOMAIN G.transitions : G.transitions[t] = l})
    /\ Len(D.arcs) = Len(G.arcs)
    /\ \A ty \in {"PlaceTransition", "TransitionPlace"} : \A w \in Weights :
          Cardinality({i \in 1..Len(D.arcs) :
                          TagOfDecoded(D.arcs[i]) = ty /\ D.arcs[i].weight = w})
            = Cardinality({i \in 1..Len(G.arcs) :
                            TagOfObj(G.arcs[i]) = ty /\ G.arcs[i].weight = w})

\* C1: for every net whose arcs join a place and a transition of the net,
\* dict_to_petrinet(petrinet_to_dict(net)) returns a net isomorphic to it.
C1_RoundTripIsomorphic ==
    (pc = "done" /\ ArcsInsideNet /\ im = None /\ fms = None)
        => /\ encoded.exc = NoExc
           /\ result.exc = NoExc
           /\ Isomorphic(net, result.ret.val.net)

\* C2: within one petrinet_to_dict call no two distinct nodes receive the same
\* identifier, and the encoded `places` and `transitions` maps have as many
\* entries as the net has places and transitions.
C2_IdentifiersUnique ==
    /\ Injective
    /\ IdsAssigned =>
          /\ DOMAIN pyid_to_uuid = NetNodes
          /\ Cardinality(DOMAIN places) = Cardinality(net.places)
          /\ Cardinality(DOMAIN transitions) = Cardinality(DOMAIN net.transitions)

\* C6: when the generator repeats an identifier within one call, the call fails
\* with IdentityCollision and returns no dictionary.
C6_CollisionIsAnError ==
    (pc \in {"decode", "done"} /\ ~Injective)
        => encoded.exc = "IdentityCollision" /\ ~encoded.ret.some

\* the object the decoder builds for a node of the original net
ImageOf(x) ==
    IF IsPlaceObj(x) THEN Place(pyid_to_uuid[x])
    ELSE Transition(pyid_to_uuid[x], net.transitions[x])

ImageOfMarking(m) == [pl \in {ImageOf(p) : p \in DOMAIN m} |->
                         m[CHOOSE p \in DOMAIN m : ImageOf(p) = pl]]

\* Supporting fact for C1, C2 and C6: in the runs in which uuid4 never repeats
\* an identifier, the decoder returns exactly the image of the encoded net under
\* pyid_to_uuid, with the image of the initial marking and of the first final
\* marking.
RoundTripExactWhenInjective ==
    (pc = "done" /\ Injective /\ encoded.exc = NoExc
                 /\ (fms.some => Len(fms.val) > 0))
        => /\ result.exc = NoExc
           /\ result.ret.val.net =
                [places |-> {ImageOf(p) : p \in net.places},
                 transitions |-> {ImageOf(t) : t \in DOMAIN net.transitions},
                 arcs |-> [i \in 1..Len(net.arcs) |->
                             Arc(ImageOf(net.arcs[i].source),
                                 ImageOf(net.arcs[i].target),
                                 net.arcs[i].weight)]]
           /\ Isomorphic(net, result.ret.val.net)
           /\ result.ret.val.im = (IF im.some THEN Some(ImageOfMarking(im.val)) ELSE None)
           /\ result.ret.val.fm = (IF fms.some THEN Some(ImageOfMarking(fms.val[1]))
                                   ELSE None)

\* petrinet_to_dict raises exactly when an arc or a marking names a node outside
\* the net
EncodeFailsOnlyOnForeignNode ==
    pc \in {"decode", "done"} =>
        (encoded.exc = NoExc <=>
            /\ ArcsInsideNet
            /\ im.some => DOMAIN im.val \subseteq net.places
            /\ fms.some => \A i \in 1..Len(fms.val) : DOMAIN fms.val[i] \subseteq net.places)

----------------------------------------------------------------------------
(* Properties of dict_to_petrinet (checked under SpecDecode) *)

HasKey(k) == k \in DOMAIN net_dict

\* the ids of the entries of the `places` and `transitions` maps
PlaceIds == {net_dict.places[k].id : k \in DOMAIN net_dict.places}
TransitionIds == {net_dict.transitions[k].id : k \in DOMAIN net_dict.transitions}

\* both ids of an arc entry are present in the maps its direction tag selects
ArcResolves(a) ==
    IF a.from_to.type = "PlaceTransition"
    THEN a.from_to.nodes[1] \in PlaceIds /\ a.from_to.nodes[2] \in TransitionIds
    ELSE a.from_to.nodes[1] \in TransitionIds /\ a.from_to.nodes[2] \in PlaceIds

\* the arc object an arc entry stands for
ArcOfEntry(a) ==
    IF a.from_to.type = "PlaceTransition"
    THEN Arc(Place(a.from_to.nodes[1]),
             Transition(a.from_to.nodes[2], net_dict.transitions[a.from_to.nodes[2]].label),
             a.weight)
    ELSE Arc(Transition(a.from_to.nodes[1], net_dict.transitions[a.from_to.nodes[1]].label),
             Place(a.from_to.nodes[2]),
             a.weight)

\* the Marking a marking entry stands for
MarkingOfEntry(m) == [pl \in {Place(i) : i \in DOMAIN m} |-> m[pl.name]]

\* nothing before line 33 raises: every key is present, every arc resolves and
\* the initial marking names places of the net only
ValidUpToFinalMarkings ==
    /\ NetKeys \subseteq DOMAIN net_dict
    /\ \A i \in 1..Len(net_dict.arcs) : ArcResolves(net_dict.arcs[i])
    /\ net_dict.initial_marking.some => DOMAIN net_dict.initial_marking.val \subseteq PlaceIds

\* the error kinds of the specification, as the places of the code that raise them
SchemaViolation(r) == r.exc = "KeyError" /\ r.line \in {9, 12, 25, 29, 34}
MalformedGraph(r) == r.exc \in {"AttributeError", "Exception"} /\ r.line = 23

\* C3: a present and empty final_markings decodes to an empty Marking, a null
\* final_markings decodes to none, and neither case fails.
C3_EmptyFinalMarkings ==
    (pc = "done" /\ ValidUpToFinalMarkings)
        => /\ ~net_dict.final_markings.some
                => result.exc = NoExc /\ result.ret.val.fm = None
           /\ (net_dict.final_markings.some /\ Len(net_dict.final_markings.val) = 0)
                => result.exc = NoExc /\ result.ret.val.fm = Some(EmptyDict)

\* C4: with one or more final markings the returned final marking is the first
\* entry, the warning is printed exactly when there is more than one entry, and
\* the call still returns.
C4_FirstFinalMarkingOnly ==
    /\ (/\ pc = "done" /\ ValidUpToFinalMarkings
        /\ net_dict.final_markings.some
        /\ Len(net_dict.final_markings.val) >= 1
        /\ DOMAIN net_dict.final_markings.val[1] \subseteq PlaceIds)
          => /\ result.exc = NoExc
             /\ result.ret.val.fm = Some(MarkingOfEntry(net_dict.final_markings.val[1]))
             /\ result.warned <=> Len(net_dict.final_markings.val) > 1
    /\ (pc = "done" /\ result.warned)
          => /\ HasKey("final_markings")
             /\ net_dict.final_markings.some
             /\ Len(net_dict.final_markings.val) > 1

C4_Witness ==
    /\ pc = "done" /\ ValidUpToFinalMarkings
    /\ net_dict.final_markings.some
    /\ Len(net_dict.final_markings.val) = 2
    /\ net_dict.final_markings.val[1] # net_dict.final_markings.val[2]
    /\ DOMAIN net_dict.final_markings.val[1] # {}
    /\ result.exc = NoExc
    /\ result.warned
    /\ result.ret.val.fm = Some(MarkingOfEntry(net_dict.final_markings.val[1]))

\* C5: each arc entry is resolved in the maps its direction tag selects; when an
\* id is absent from its map the call fails at the arc (MalformedGraph) and
\* returns nothing, and a returned net holds every arc entry, resolved.
C5_ArcsResolveOrFail ==
    (pc = "done" /\ HasKey("places") /\ HasKey("transitions") /\ HasKey("arcs"))
        => IF \E i \in 1..Len(net_dict.arcs) : ~ArcResolves(net_dict.arcs[i])
           THEN MalformedGraph(result) /\ ~result.ret.some
           ELSE /\ ~MalformedGraph(result)
                /\ result.ret.some =>
                     result.ret.val.net.arcs =
                        [i \in 1..Len(net_dict.arcs) |-> ArcOfEntry(net_dict.arcs[i])]

C5_Witness ==
    /\ pc = "done" /\ NetKeys \subseteq DOMAIN net_dict
    /\ Len(net_dict.arcs) = 2
    /\ ArcResolves(net_dict.arcs[1])
    /\ ~ArcResolves(net_dict.arcs[2])
    /\ net_dict.arcs[2].from_to.nodes[1] \in TransitionIds
    /\ MalformedGraph(result) /\ ~result.ret.some

\* C7: a dictionary without `places`, `transitions` or `arcs` makes the call
\* fail with the KeyError of the missing key (SchemaViolation); no net is returned.
C7_MissingKeyFails ==
    (pc = "done" /\ ~({"places", "transitions", "arcs"} \subseteq DOMAIN net_dict))
        => /\ SchemaViolation(result)
           /\ result.line \in {9, 12, 25}
           /\ ~result.ret.some

C7_Witness ==
    /\ pc = "done"
    /\ HasKey("places") /\ HasKey("transitions") /\ ~HasKey("arcs")
    /\ SchemaViolation(result) /\ result.line = 25

----------------------------------------------------------------------------
(* event_log.py : Event, Trace, EventLog *)

ACTIVITY_NAME == "concept:name"
TRACE_ID_NAME == "case:concept:name"

\* the dataclass instances; a dict has no `cls`
Event(attributes) == [cls |-> "Event", attributes |-> attributes]
Trace(attributes, events) ==
    [cls |-> "Trace", attributes |-> attributes, events |-> events]
EventLog(attributes, traces) ==
    [cls |-> "EventLog", attributes |-> attributes, traces |-> traces]

\* d.get(k, default)
DictGetDefault(d, k, default) == IF k \in DOMAIN d THEN d[k] ELSE default

\* the exception of the first element of a list of outcomes that raised
FirstExc(outs) == outs[Min({i \in 1..Len(outs) : outs[i].exc # NoExc})].exc
AllReturn(outs) == \A i \in 1..Len(outs) : outs[i].exc = NoExc

\* lines 14-18
Event_from_activity(activity) == Event([k \in {ACTIVITY_NAME} |-> activity])

\* faulty variant of Event_from_dict: d["attributes"] in place of d.get("attributes", dict())
Event_from_dict_subscript(d) ==
    IF "attributes" \in DOMAIN d
    THEN [exc |-> NoExc, val |-> Event(d.attributes)]
    ELSE [exc |-> "KeyError", val |-> None]

\* lines 20-22
Event_from_dict(d) ==
    [exc |-> NoExc, val |-> Event(DictGetDefault(d, "attributes", EmptyDict))]

\* lines 25-26
Event_to_dict(self) == [attributes |-> self.attributes]

\* lines 34-38
Trace_from_traceid_events(trace_id, events) ==
    Trace([k \in {TRACE_ID_NAME} |-> trace_id], events)

\* lines 40-45
Trace_from_dict(d) ==
    LET attributes == DictGetDefault(d, "attributes", EmptyDict)
        ds == DictGetDefault(d, "events", <<>>)
        events == [i \in 1..Len(ds) |-> Event_from_dict(ds[i])]
    IN IF ~AllReturn(events) THEN [exc |-> FirstExc(events), val |-> None]
       ELSE [exc |-> NoExc,
             val |-> Trace(attributes, [i \in 1..Len(ds) |-> events[i].val])]

\* faulty variant of Trace_to_dict: the events are written under the key "event"
Trace_to_dict_misnamed(self) ==
    [event |-> [i \in 1..Len(self.events) |-> Event_to_dict(self.events[i])],
     attributes |-> self.attributes]

\* lines 47-51
Trace_to_dict(self) ==
    [events |-> [i \in 1..Len(self.events) |-> Event_to_dict(self.events[i])],
     attributes |-> self.attributes]

\* lines 58-67
EventLog_from_count(num_traces, num_acts) ==
    EventLog([k \in {"name"} |-> "Test EventLog created in Python"],
             [i \in 1..num_traces |->
                Trace_from_traceid_events("Trace " \o ToString(i - 1),
                    [j \in 1..num_acts |->
                        Event_from_activity("Activity " \o ToString(j - 1))])])

\* lines 69-74
EventLog_from_dict(d) ==
    LET attributes == DictGetDefault(d, "attributes", EmptyDict)
        ds == DictGetDefault(d, "traces", <<>>)
        traces == [i \in 1..Len(ds) |-> Trace_from_dict(ds[i])]
    IN IF ~AllReturn(traces) THEN [exc |-> FirstExc(traces), val |-> None]
       ELSE [exc |-> NoExc,
             val |-> EventLog(attributes, [i \in 1..Len(ds) |-> traces[i].val])]

\* lines 76-80
EventLog_to_dict(self) ==
    [traces |-> [i \in 1..Len(self.traces) |-> Trace_to_dict(self.traces[i])],
     attributes |-> self.attributes]

\* lines 104-105
create_event_log(num_traces, num_acts) == EventLog_from_count(num_traces, num_acts)

----------------------------------------------------------------------------
(* event_log.py : py_test_event_log, lines 83-101 *)

\* json.dumps(v): a dataclass instance is no JSON value and raises TypeError; a
\* dict of lists, dicts and strings is written out.  The text is represented by
\* the JSON value it spells.
json_dumps(v) ==
    IF "cls" \in DOMAIN v THEN [exc |-> "TypeError", text |-> None]
    ELSE [exc |-> NoExc, text |-> Some([json |-> v])]

\* json.loads(text)
json_loads(text) == text.json

\* native.test_event_log_bytes: the engine, here one that echoes its payload
test_event_log_bytes(payload) == payload

\* lines 86-101, for the log that line 85 created
py_test_event_log_tail(built) ==
    LET json_res == json_dumps(built)
    IN IF json_res.exc # NoExc
       THEN [json_arg |-> built, exc |-> json_res.exc, line |-> 91, ret |-> None]
       ELSE LET new_log_dict_bytes == test_event_log_bytes(json_res.text.val)
                new_log_dict == json_loads(new_log_dict_bytes)
                got == EventLog_from_dict(new_log_dict)
            IN IF got.exc # NoExc
               THEN [json_arg |-> built, exc |-> got.exc, line |-> 98, ret |-> None]
               ELSE [json_arg |-> built, exc |-> NoExc, line |-> 101,
                     ret |-> Some(got.val)]

----------------------------------------------------------------------------
(* The logs and dictionaries the scenarios start from *)

LogAttributes == {EmptyDict, [k \in {"name"} |-> "traces"]}
TraceAttributes == {EmptyDict, [k \in {TRACE_ID_NAME} |-> "events"]}
EventAttributes == {EmptyDict, [k \in {ACTIVITY_NAME} |-> ""]}

Events == {Event(a) : a \in EventAttributes}
Traces == {Trace(a, es) : a \in TraceAttributes, es \in SeqsUpTo(Events, MaxLen)}
EventLogs == {EventLog(a, ts) : a \in LogAttributes, ts \in SeqsUpTo(Traces, MaxLen)}

\* the dicts with exactly the keys K of those d has
Restrict(d, K) == [k \in K \cap DOMAIN d |-> d[k]]

\* dictionaries of the event-log schema from which keys are absent
EventDicts == {EmptyDict, [attributes |-> [k \in {ACTIVITY_NAME} |-> "a"]]}
TraceDicts ==
    {Restrict([attributes |-> [k \in {TRACE_ID_NAME} |-> "t"], events |-> es], K) :
        es \in SeqsUpTo(EventDicts, MaxLen),
        K \in {{"attributes", "events"}, {"attributes"}, {"events"}, {}}}
LogDicts ==
    {Restrict([attributes |-> [k \in {"name"} |-> "l"], traces |-> ts], K) :
        ts \in SeqsUpTo(TraceDicts, MaxLen),
        K \in {{"attributes", "traces"}, {"attributes"}, {"traces"}, {}}}

----------------------------------------------------------------------------
(* Scenario 3: the event-log codec and py_test_event_log *)

IdleNet ==
    /\ net = Idle /\ im = Idle /\ fms = Idle
    /\ todo_places = {} /\ todo_transitions = {}
    /\ pyid_to_uuid = EmptyDict /\ places = EmptyDict /\ transitions = EmptyDict
    /\ encoded = Idle /\ net_dict = Idle /\ result = Idle

InitLog ==
    /\ IdleNet
    /\ new_log = Idle
    /\ test_run = Idle
    /\ \/ pc = "to_dict" /\ log \in EventLogs /\ log_dict = Idle
       \/ pc = "from_dict" /\ log = Idle /\ log_dict \in LogDicts
       \/ pc = "test" /\ log = Idle /\ log_dict = Idle

\* log.to_dict()
ToDict ==
    /\ pc = "to_dict"
    /\ log_dict' = EventLog_to_dict(log)
    /\ pc' = "round_trip"
    /\ UNCHANGED <<log, new_log, test_run, netVars>>

\* EventLog.from_dict(log_dict)
FromDict ==
    /\ pc \in {"round_trip", "from_dict"}
    /\ new_log' = EventLog_from_dict(log_dict)
    /\ pc' = IF pc = "round_trip" THEN "round_trip_done" ELSE "from_dict_done"
    /\ UNCHANGED <<log, log_dict, test_run, netVars>>

\* py_test_event_log, line 85: log = create_event_log(200_000, 10), with the two
\* counts left open up to MaxCount
TestCreate ==
    /\ pc = "test"
    /\ \E num_traces \in 0..MaxCount, num_acts \in 0..MaxCount :
          log' = create_event_log(num_traces, num_acts)
    /\ pc' = "test_created"
    /\ UNCHANGED <<log_dict, new_log, test_run, netVars>>

\* py_test_event_log, lines 86-101
TestRun ==
    /\ pc = "test_created"
    /\ test_run' = py_test_event_log_tail(log)
    /\ pc' = "test_done"
    /\ UNCHANGED <<log, log_dict, new_log, netVars>>

NextLog == ToDict \/ FromDict \/ TestCreate \/ TestRun

SpecLog == InitLog /\ [][NextLog]_vars

----------------------------------------------------------------------------
(* Properties of the event-log codec (checked under SpecLog) *)

\* C8: EventLog.from_dict(L.to_dict()) equals L, traces and events in order, for
\* every log L, the log without traces and traces without events included.
C8_LogRoundTrip ==
    pc = "round_trip_done" => new_log.exc = NoExc /\ new_log.val = log

C8_Witness ==
    /\ pc = "round_trip_done"
    /\ Len(log.traces) = 2
    /\ Len(log.traces[1].events) = 2
    /\ log.traces[1].events[1] # log.traces[1].events[2]
    /\ Len(log.traces[2].events) = 0
    /\ log.traces[1].attributes = EmptyDict
    /\ log.attributes # EmptyDict
    /\ new_log.val = log

\* what a level of the decoded log must hold for a dict d of that level
AttributesOf(d) == IF "attributes" \in DOMAIN d THEN d.attributes ELSE EmptyDict
ListOf(d, k) == IF k \in DOMAIN d THEN d[k] ELSE <<>>

\* C9: from_dict never fails on a dict from which `attributes`, `events` or
\* `traces` is absent: at every level an absent `attributes` decodes to an empty
\* mapping and an absent `events` or `traces` to an empty sequence.
C9_AbsentKeysDefault ==
    pc \in {"from_dict_done", "round_trip_done"} =>
        /\ new_log.exc = NoExc
        /\ new_log.val.cls = "EventLog"
        /\ new_log.val.attributes = AttributesOf(log_dict)
        /\ Len(new_log.val.traces) = Len(ListOf(log_dict, "traces"))
        /\ \A i \in 1..Len(ListOf(log_dict, "traces")) :
              LET td == log_dict.traces[i]
                  t == new_log.val.traces[i]
              IN /\ t.cls = "Trace"
                 /\ t.attributes = AttributesOf(td)
                 /\ Len(t.events) = Len(ListOf(td, "events"))
                 /\ \A j \in 1..Len(ListOf(td, "events")) :
                       t.events[j] = Event(AttributesOf(td.events[j]))

C9_Witness ==
    /\ pc = "from_dict_done"
    /\ DOMAIN log_dict = {"traces"}
    /\ Len(log_dict.traces) = 2
    /\ DOMAIN log_dict.traces[1] = {"attributes"}
    /\ DOMAIN log_dict.traces[2] = {"events"}
    /\ Len(log_dict.traces[2].events) = 2
    /\ DOMAIN log_dict.traces[2].events[1] = {}
    /\ DOMAIN log_dict.traces[2].events[2] = {"attributes"}
    /\ new_log.exc = NoExc
    /\ new_log.val.attributes = EmptyDict
    /\ new_log.val.traces[1].events = <<>>

\* C10: py_test_event_log hands the dictionary form of the log it built to the
\* text serializer, completes, and with an echoing engine returns a log equal to
\* the one it built.
C10_TestPipeline ==
    pc = "test_done" =>
        /\ test_run.exc = NoExc
        /\ test_run.json_arg = EventLog_to_dict(log)
        /\ test_run.ret = Some(log)

====
